---- MODULE Spec2Model ----
(***************************************************************************)
(* chorus-core: the test orchestration engine.                             *)
(*                                                                         *)
(*   Testcase.run / Testcase._runStep      src/chorus/testcase.py          *)
(*   Testsuite.addcase / _sortcase / run   src/chorus/testsuite.py         *)
(*   ChorusThread                          src/chorus/utils.py             *)
(*                                                                         *)
(* Two drivers share the actions of Testcase.run:                          *)
(*   Spec      Testsuite.run over a schedule built with Testsuite.addcase  *)
(*   SpecCase  one direct call Testcase(...).run(fixture_chain=P,          *)
(*             next_chain=N) of one testcase                               *)
(* User code (fixture init/clean, steps, topology init/clean) is the       *)
(* environment: every call draws its outcome from a small set.             *)
(***************************************************************************)
EXTENDS Integers, Sequences, FiniteSets, TLC

(***************************************************************************)
(* Result codes, Testcase._passvalue .. Testcase._skippedvalue.            *)
(* UNKNOWN and SKIPPED are the same number in the source.                  *)
(***************************************************************************)
PASS == 4
FAIL == 8
ABORT == 16
TOPO_FAIL == 32
CONN_FAIL == 64
UNKNOWN == 128
SKIPPED == 128

\* Testcase.STATES: a dict literal, the later of two equal keys wins, so
\* the key 128 maps to "SKIPPED" and no key maps to "UNKNOWN".
STATES ==
  [c \in {PASS, FAIL, ABORT, TOPO_FAIL, CONN_FAIL, UNKNOWN, SKIPPED} |->
     CASE c = PASS -> "PASS"
       [] c = FAIL -> "FAIL"
       [] c = ABORT -> "ABORT"
       [] c = TOPO_FAIL -> "TOPO_FAIL"
       [] c = CONN_FAIL -> "CONN_FAIL"
       [] c = SKIPPED -> "SKIPPED"
       [] OTHER -> "UNKNOWN"]

\* Result.STAGE_*
STAGE_NOT_RUN == "Not started"
STAGE_INIT == "Initialization"
STAGE_STEP == "Running Steps"
STAGE_CLEAN == "Cleaning up"
STAGE_FINISHED == "Finished"

(***************************************************************************)
(* Bounds of the model.                                                    *)
(***************************************************************************)
\* number of Testsuite.addcase calls before Testsuite.run
MaxCases == 2

(***************************************************************************)
(* The testcase classes under test (the user's test repository).           *)
(*   X            init, clean, step1                 topo tA               *)
(*   Y(X)         init, clean, step1                 topo tA               *)
(*   Z(Y)         init, clean, step1                 topo tA               *)
(*   V(X)         clean only, step1_1, step1_2       topo tB               *)
(*   T(V)         init, clean, step1                 topo tB               *)
(*   S3           init, clean, step1, step2, step3   topo tA               *)
(*   P3           step1_1, step1_2, step1_3          topo tA               *)
(*   U            step1                              topo tN, which is not *)
(*                                                   registered            *)
(*   W            init, clean, no step               topo tA               *)
(***************************************************************************)
BaseClass == "Testcase"

Parent ==
  [c \in {"X", "Y", "Z", "V", "T", "S3", "P3", "U", "W"} |->
     CASE c = "Y" -> "X"
       [] c = "Z" -> "Y"
       [] c = "V" -> "X"
       [] c = "T" -> "V"
       [] OTHER -> BaseClass]

AllClasses == DOMAIN Parent

\* classes whose own __dict__ has an init / a clean method
HasInit == {"X", "Y", "Z", "T", "S3", "W"}
HasClean == {"X", "Y", "Z", "V", "T", "S3", "W"}

\* cls.topo
TopoOf ==
  [c \in AllClasses |->
     CASE c \in {"V", "T"} -> "tB"
       [] c = "U" -> "tN"
       [] OTHER -> "tA"]

\* Topo.__topos__: the registered topologies
Topos == {"tA", "tB"}

\* Testcase._getSteps: the sub-step count of every step id, ascending ids
StepsOf ==
  [c \in AllClasses |->
     CASE c = "S3" -> <<1, 1, 1>>
       [] c = "P3" -> <<3>>
       [] c = "V" -> <<2>>
       [] c = "W" -> <<>>
       [] OTHER -> <<1>>]

\* the classes Testsuite.addcase is called with in Spec
SuiteClasses == {"X", "Y", "Z", "V", "U"}

\* Testcase.getFixtureChain: one entry per class of the MRO except Testcase
\* and object, outermost ancestor first; an entry is known by its class name
\* and carries 'init' / 'clean' when that class defines them itself.
RECURSIVE getFixtureChain(_)
getFixtureChain(c) ==
  IF c = BaseClass THEN <<>> ELSE Append(getFixtureChain(Parent[c]), c)

\* the chains next_chain is drawn from in SpecCase
AllChains == {<<>>} \cup {getFixtureChain(c) : c \in AllClasses}

(***************************************************************************)
(* What user code can do when called.                                      *)
(***************************************************************************)
\* a step or sub-step: returns nothing, returns a code (TOPO_FAIL and
\* CONN_FAIL are for fixtures and topologies, not for steps), returns a
\* value outside Testcase.STATES, raises AssertionError, raises a subclass
\* of AssertionError, raises another Exception, or raises
\* KeyboardInterrupt/SystemExit
StepOutcomes ==
  {"None", "PASS", "FAIL", "ABORT", "SKIPPED", "BAD", "AssertionError",
   "AssertionSub", "Exception", "KeyboardInterrupt"}

\* a fixture init: returns a code, returns a value outside Testcase.STATES,
\* raises an Exception, or raises KeyboardInterrupt/SystemExit
FixtureOutcomes ==
  {"PASS", "FAIL", "ABORT", "TOPO_FAIL", "CONN_FAIL", "SKIPPED",
   "BAD", "Exception", "KeyboardInterrupt"}

\* a fixture clean: the same, ABORT standing for the codes of STATES that
\* the teardown phase does not tell from it
CleanOutcomes ==
  {"PASS", "FAIL", "ABORT", "SKIPPED", "BAD", "Exception",
   "KeyboardInterrupt"}

\* the code a returned value stands for; 0 is a value outside STATES
\* (None, or any other object)
CodeOf(o) ==
  CASE o = "PASS" -> PASS
    [] o = "FAIL" -> FAIL
    [] o = "ABORT" -> ABORT
    [] o = "TOPO_FAIL" -> TOPO_FAIL
    [] o = "CONN_FAIL" -> CONN_FAIL
    [] o = "SKIPPED" -> SKIPPED
    [] OTHER -> 0

Raises(o) == o \in {"AssertionError", "AssertionSub", "Exception", "KeyboardInterrupt"}

(***************************************************************************)
(* State.                                                                  *)
(***************************************************************************)
VARIABLES
  pc,             \* position of the control thread
  cases,          \* Testsuite.cases: the class of every scheduled case
  i,              \* Testsuite.run: index of the current case (from 1)
  cur_topo,       \* Testsuite.run: name of cur_topo, or NoTopo
  fixture_chain,  \* the running chain: entries [name, case] applied so far
  next_chain,     \* Testcase.run: its next_chain argument (entry names)
  case_results,   \* Testsuite._case_results: status -> case indices
  results,        \* results[n]: the Result object of the n-th Testcase
  step_results,   \* the list object all Result.step_results refer to
  cof,            \* c_continue_on_fail of the testcases
  suite_ret,      \* what Testsuite.run returned ("none" before it returns)
  init_rslt,      \* Testcase.run locals
  idx,            \*   position in local_chain (init) or in sids (steps)
  clean_rslt,
  td_i,           \*   the i of lines 309-314
  interrupt,      \* "none", "raised" (in flight), "swallowed", "propagated"
  threads,        \* Testcase._runStep: the ChorusThreads of the step
  jn,             \*   index of the thread being joined
  st_rcode,       \*   rcode
  st_rlist,       \*   rlist: the rcode of every StepResult
  ret,            \*   what the single step's call did
  orphans,        \* sub-step threads left running by an interrupted join
  log,            \* history of the current Testcase.run, until its result
                  \*   is recorded or an exception leaves it: every fixture
                  \*   call, pop and step, in order
  init_ok,        \* history: init_ok[n] iff every init called by the n-th
                  \*   Testcase.run returned PASS
  clean_fail,     \* history: a clean of the current run raised or returned
                  \*   a code of STATES other than PASS
  unknown,        \* history: the cases a step or joined sub-step of which
                  \*   returned a value outside STATES
  topo_inits,     \* how often each topology's init was called
  topo_cleans,    \* how often each topology's clean was called
  added           \* the last call of Testsuite.addcase: its argument and
                  \*   return value, until Testsuite.run starts

suite_vars == <<cases, i, cur_topo, case_results, suite_ret, topo_inits, topo_cleans, added>>
hist_vars == <<log, init_ok, clean_fail, unknown>>
step_vars == <<threads, jn, st_rcode, st_rlist, ret>>
run_vars == <<init_rslt, idx, clean_rslt, td_i>>
vars == <<pc, cases, i, cur_topo, fixture_chain, next_chain, case_results,
          results, step_results, cof, suite_ret, init_rslt, idx, clean_rslt,
          td_i, interrupt, threads, jn, st_rcode, st_rlist, ret, orphans,
          log, init_ok, clean_fail, unknown, topo_inits, topo_cleans, added>>

NoTopo == "none"

\* no call of Testsuite.addcase to remember
NotAdded == [name |-> "", ret |-> "none"]

\* Result.__init__ as called by Testcase.__init__: rcode=_unvalue, and
\* step_results left to the default argument, one list shared by all.
NewResult ==
  [rcode |-> UNKNOWN, stage |-> STAGE_NOT_RUN, step_count |-> 0,
   step_run |-> 0, failed_on |-> <<>>]

\* an entry of the history: ev is "init", "clean" (a popped entry whose
\* clean was called), "pop" (a popped entry without clean), "step" (a step
\* was started) or "stepret" (_runStep returned); run is the case that was
\* running, owner the case that had applied the fixture entry
Event(ev, name, sid, owner, out) ==
  [ev |-> ev, name |-> name, sid |-> sid, run |-> i, owner |-> owner, out |-> out]

\* what the history keeps of a fixture init's outcome: the outcomes that
\* Testcase.run tells apart (lines 236-247), the remaining codes of STATES
\* as one class
InitClass(o) ==
  IF o \in {"ABORT", "TOPO_FAIL", "CONN_FAIL"} THEN "NONPASS" ELSE o

\* a step_erro dict: its 'step' text; sid is the step id of "stepN", else 0
Erro(step, sid) == [step |-> step, sid |-> sid]

Statuses == {STATES[c] : c \in DOMAIN STATES}

InitCommon ==
  /\ cur_topo = NoTopo
  /\ case_results = [s \in Statuses |-> <<>>]
  /\ step_results = <<>>
  /\ cof \in BOOLEAN
  /\ suite_ret = "none"
  /\ init_rslt = PASS
  /\ idx = 0
  /\ clean_rslt = PASS
  /\ td_i = 0
  /\ interrupt = "none"
  /\ threads = <<>>
  /\ jn = 0
  /\ st_rcode = PASS
  /\ st_rlist = <<>>
  /\ ret = "none"
  /\ orphans = 0
  /\ log = <<>>
  /\ clean_fail = FALSE
  /\ unknown = {}
  /\ topo_inits = [t \in Topos |-> 0]
  /\ topo_cleans = [t \in Topos |-> 0]
  /\ added = NotAdded

\* Testsuite.__init__: no case scheduled
Init ==
  /\ pc = "idle"
  /\ cases = <<>>
  /\ i = 0
  /\ fixture_chain = <<>>
  /\ next_chain = <<>>
  /\ results = <<>>
  /\ init_ok = <<>>
  /\ InitCommon

(***************************************************************************)
(* Testsuite.addcase and Testsuite._sortcase                               *)
(***************************************************************************)
\* Testsuite._case_class: the classes load_case found; the classes of
\* LibClasses have topo = None
LibClasses == {"L"}
CaseClass == SuiteClasses \cup LibClasses

\* the names Testsuite.addcase is called with: "Q" is no class
AddNames == CaseClass \cup {"Q"}

\* cls.topo
ClassTopo(c) == IF c \in LibClasses THEN NoTopo ELSE TopoOf[c]

\* an addcase that adds nothing
RejectsAll(name) == TRUE

\* lines 239-250: the name is not in _case_class, or cls.topo is None
Rejects(name) ==
  IF name \notin CaseClass THEN TRUE ELSE ClassTopo(name) = NoTopo

\* Testsuite.addcase. A scheduled case is known by its class name: its
\* t_case_fx is getFixtureChain of the class and its topo TopoOf of it.
addcase(name) ==
  /\ pc = "idle"
  /\ IF Rejects(name)
     THEN /\ cases' = cases
          /\ added' = [name |-> name, ret |-> "false"]
     ELSE /\ Len(cases) < MaxCases
          /\ cases' = Append(cases, name)
          /\ added' = [name |-> name, ret |-> "true"]
  /\ UNCHANGED <<pc, i, cur_topo, fixture_chain, next_chain, case_results,
                 results, step_results, cof, suite_ret, init_rslt, idx,
                 clean_rslt, td_i, interrupt, threads, jn, st_rcode,
                 st_rlist, ret, orphans, log, init_ok, clean_fail, unknown,
                 topo_inits, topo_cleans>>

IsPrefix(a, b) ==
  /\ Len(a) <= Len(b)
  /\ \A k \in 1..Len(a) : a[k] = b[k]

\* list < list on two t_case_fx keys compares the first differing pair of
\* entry dicts with <, which dicts do not support (TypeError); without a
\* differing pair the shorter list is the smaller one.
Comparable(c1, c2) ==
  \/ IsPrefix(getFixtureChain(c1), getFixtureChain(c2))
  \/ IsPrefix(getFixtureChain(c2), getFixtureChain(c1))

\* list.sort(key=...): stable
RECURSIVE StableSort(_, _)
StableSort(s, key) ==
  IF s = <<>> THEN <<>>
  ELSE LET x == s[Len(s)]
           r == StableSort(SubSeq(s, 1, Len(s) - 1), key)
           p == Cardinality({k \in 1..Len(r) : key[r[k]] <= key[x]})
       IN SubSeq(r, 1, p) \o <<x>> \o SubSeq(r, p + 1, Len(r))

RECURSIVE Flatten(_)
Flatten(ss) == IF ss = <<>> THEN <<>> ELSE Head(ss) \o Flatten(Tail(ss))

\* the keys of topo_dict in insertion order
RECURSIVE TopoOrder(_)
TopoOrder(cs) ==
  IF cs = <<>> THEN <<>>
  ELSE LET r == TopoOrder(SubSeq(cs, 1, Len(cs) - 1))
           t == TopoOf[cs[Len(cs)]]
       IN IF \E k \in 1..Len(r) : r[k] = t THEN r ELSE Append(r, t)

SelectTopo(cs, t) ==
  LET Test(c) == TopoOf[c] = t IN SelectSeq(cs, Test)

SortRaises(cs) ==
  \E a, b \in 1..Len(cs) :
    /\ TopoOf[cs[a]] = TopoOf[cs[b]]
    /\ ~Comparable(cs[a], cs[b])

sortcase(cs) ==
  LET order == TopoOrder(cs)
      bylen == [c \in AllClasses |-> Len(getFixtureChain(c))]
      groups == [k \in 1..Len(order) |->
                   StableSort(SelectTopo(cs, order[k]), bylen)]
      size == [g \in {groups[k] : k \in 1..Len(groups)} |-> Len(g)]
  IN Flatten(StableSort(groups, size))

(***************************************************************************)
(* Testsuite.run                                                           *)
(***************************************************************************)
\* a histogram that files every case that ran under its own result code
add_case_result_own(cr, n, state_code) ==
  LET code == IF n <= Len(results) THEN results[n].rcode ELSE state_code
  IN [cr EXCEPT ![STATES[code]] = Append(@, n)]

\* Testsuite._add_case_result
add_case_result(cr, n, state_code) ==
  [cr EXCEPT ![STATES[state_code]] = Append(@, n)]

\* a suite that takes every case for the last of its group
LastOfGroupAlways(cs, n) == TRUE

\* i == len(self.cases) - 1 or self.cases[i + 1]['topo'] != topo_name
LastOfGroup(cs, n) ==
  IF n = Len(cs) THEN TRUE ELSE TopoOf[cs[n + 1]] # TopoOf[cs[n]]

\* a loop head that looks for a topology only when it holds none
NeedTopoFirst == cur_topo = NoTopo

\* not cur_topo or topo_name != cur_topo.name
NeedTopo == cur_topo = NoTopo \/ TopoOf[cases[i]] # cur_topo

\* Testsuite.run up to the loop: _sortcase raises TypeError, or sorts
run_sortcase ==
  /\ pc = "idle"
  /\ IF SortRaises(cases)
     THEN pc' = "crashed" /\ UNCHANGED <<cases, i>>
     ELSE /\ cases' = sortcase(cases)
          /\ i' = 1
          /\ pc' = IF cases = <<>> THEN "report" ELSE "loop"
  /\ UNCHANGED <<cur_topo, fixture_chain, next_chain, case_results, results,
                 step_results, cof, suite_ret, init_rslt, idx, clean_rslt,
                 td_i, interrupt, threads, jn, st_rcode, st_rlist, ret,
                 orphans, log, init_ok, clean_fail, unknown, topo_inits,
                 topo_cleans>>
  /\ added' = NotAdded

\* loop head, Topo.getTopo returns None: the case is recorded SKIPPED
CaseTopoMissing ==
  /\ pc = "loop"
  /\ NeedTopo
  /\ TopoOf[cases[i]] \notin Topos
  /\ cur_topo' = NoTopo
  /\ results' = Append(results, [NewResult EXCEPT !.rcode = SKIPPED])
  /\ init_ok' = Append(init_ok, TRUE)
  /\ case_results' = add_case_result(case_results, i, SKIPPED)
  /\ i' = i + 1
  /\ pc' = IF i = Len(cases) THEN "report" ELSE "loop"
  /\ UNCHANGED <<cases, fixture_chain, next_chain, step_results, cof,
                 suite_ret, init_rslt, idx, clean_rslt, td_i, interrupt,
                 threads, jn, st_rcode, st_rlist, ret, orphans, log, clean_fail, unknown, topo_inits, topo_cleans, added>>

\* loop head, cur_topo.init raises: the case is recorded TOPO_FAIL and the
\* loop is left with break
CaseTopoInitFail ==
  /\ pc = "loop"
  /\ NeedTopo
  /\ TopoOf[cases[i]] \in Topos
  /\ topo_inits' = [topo_inits EXCEPT ![TopoOf[cases[i]]] = @ + 1]
  /\ cur_topo' = NoTopo
  /\ fixture_chain' = <<>>
  /\ next_chain' = <<>>
  /\ results' = Append(results, NewResult)
  /\ init_ok' = Append(init_ok, TRUE)
  /\ case_results' = add_case_result(case_results, i, TOPO_FAIL)
  /\ pc' = "report"
  /\ UNCHANGED <<cases, i, step_results, cof, suite_ret, init_rslt, idx,
                 clean_rslt, td_i, interrupt, threads, jn, st_rcode,
                 st_rlist, ret, orphans, log, clean_fail, unknown, topo_cleans, added>>

\* loop head up to the call of t.run: the topology is there or initializes
CaseStart ==
  /\ pc = "loop"
  /\ IF NeedTopo
     THEN /\ TopoOf[cases[i]] \in Topos
          /\ cur_topo' = TopoOf[cases[i]]
          /\ fixture_chain' = <<>>
          /\ topo_inits' = [topo_inits EXCEPT ![TopoOf[cases[i]]] = @ + 1]
     ELSE UNCHANGED <<cur_topo, fixture_chain, topo_inits>>
  /\ next_chain' = IF LastOfGroup(cases, i) THEN <<>>
                   ELSE getFixtureChain(cases[i + 1])
  /\ results' = Append(results, NewResult)
  /\ init_ok' = Append(init_ok, TRUE)
  /\ pc' = "run"
  /\ UNCHANGED <<cases, i, case_results, step_results, cof, suite_ret,
                 init_rslt, idx, clean_rslt, td_i, interrupt, threads, jn,
                 st_rcode, st_rlist, ret, orphans, log, clean_fail, unknown,
                 topo_cleans, added>>

\* after t.run returned: the topology is cleaned after the last case of its
\* group, the result is recorded
CaseEnd ==
  /\ pc = "ran"
  /\ topo_cleans' = IF LastOfGroup(cases, i)
                    THEN [topo_cleans EXCEPT ![cur_topo] = @ + 1]
                    ELSE topo_cleans
  /\ UNCHANGED added
  /\ case_results' = add_case_result(case_results, i, results[i].rcode)
  /\ i' = i + 1
  /\ log' = <<>>
  /\ clean_fail' = FALSE
  /\ UNCHANGED unknown
  /\ pc' = IF i = Len(cases) THEN "report" ELSE "loop"
  /\ UNCHANGED <<cases, cur_topo, fixture_chain, next_chain, results,
                 step_results, cof, suite_ret, init_rslt, idx, clean_rslt,
                 td_i, interrupt, threads, jn, st_rcode, st_rlist, ret,
                 orphans, init_ok, topo_inits>>

\* the same when cur_topo.clean raises
CaseEndCleanFail ==
  /\ pc = "ran"
  /\ LastOfGroup(cases, i)
  /\ topo_cleans' = [topo_cleans EXCEPT ![cur_topo] = @ + 1]
  /\ UNCHANGED added
  /\ case_results' = add_case_result(case_results, i, TOPO_FAIL)
  /\ i' = i + 1
  /\ log' = <<>>
  /\ clean_fail' = FALSE
  /\ UNCHANGED unknown
  /\ pc' = IF i = Len(cases) THEN "report" ELSE "loop"
  /\ UNCHANGED <<cases, cur_topo, fixture_chain, next_chain, results,
                 step_results, cof, suite_ret, init_rslt, idx, clean_rslt,
                 td_i, interrupt, threads, jn, st_rcode, st_rlist, ret,
                 orphans, init_ok, topo_inits>>

\* after the loop: the return value of Testsuite.run
SuiteFinish ==
  /\ pc = "report"
  /\ suite_ret' = IF \A s \in Statuses :
                       case_results[s] # <<>> => s \in {"PASS", "SKIPPED"}
                  THEN "true" ELSE "false"
  /\ pc' = "done"
  /\ UNCHANGED <<cases, i, cur_topo, fixture_chain, next_chain, case_results,
                 results, step_results, cof, init_rslt, idx, clean_rslt,
                 td_i, interrupt, threads, jn, st_rcode, st_rlist, ret,
                 orphans, log, init_ok, clean_fail, unknown, topo_inits, topo_cleans, added>>

(***************************************************************************)
(* Testcase.run                                                            *)
(***************************************************************************)
\* a teardown loop that takes no account of next_chain
TeardownAll(fc, nc) == 0

\* lines 309-313: the value of i when the teardown loop starts (from 0)
TeardownFrom(fc, nc) ==
  LET stop == {j \in 0..(Len(nc) - 1) :
                 j >= Len(fc) \/ nc[j + 1] # fc[j + 1].name}
  IN IF nc = <<>> THEN 0
     ELSE IF stop = {} THEN Len(nc) - 1
     ELSE CHOOSE j \in stop : \A m \in stop : j <= m

\* The finally clause up to the teardown loop. r is the Result as the try
\* and its handlers left it, fc the running chain, nc next_chain, intr
\* whether KeyboardInterrupt/SystemExit is being re-raised. A result code of
\* 128 returns at once; the return discards the exception in flight. The
\* locals of the try block are dead from here on.
Finally(r, fc, nc, intr) ==
  /\ init_rslt' = PASS
  /\ idx' = 0
  /\ IF r.rcode = SKIPPED
     THEN /\ results' = [results EXCEPT ![i] = [r EXCEPT !.stage = STAGE_FINISHED]]
          /\ pc' = "ran"
          /\ interrupt' = IF intr THEN "swallowed" ELSE "none"
          /\ clean_rslt' = PASS
          /\ td_i' = 0
     ELSE /\ results' = [results EXCEPT ![i] = [r EXCEPT !.stage = STAGE_CLEAN]]
          /\ pc' = "teardown"
          /\ interrupt' = IF intr THEN "raised" ELSE "none"
          /\ clean_rslt' = PASS
          /\ td_i' = TeardownFrom(fc, nc)

\* except BaseException: the handler of lines 286-292
Faulted(r, erro) ==
  [r EXCEPT !.failed_on = Append(@, erro), !.rcode = ABORT]

\* a run that does not compare the running chain with its own
ChainMismatchNever(fc, local_chain) == FALSE

\* lines 222-233: the running chain is longer than local_chain or differs
\* from it by name at some position
ChainMismatch(fc, local_chain) ==
  \/ Len(fc) > Len(local_chain)
  \/ \E k \in 1..Len(fc) : local_chain[k] # fc[k].name

\* an init loop over the whole of local_chain
InitStartAll(fc) == 1

\* line 236, local_chain[len(fixture_chain):]: the position in local_chain
\* (from 1) of the first entry the init loop visits
InitStart(fc) == Len(fc) + 1

\* a step discovery that returns the empty grouping
NoStepsNever(steps) == FALSE

\* lines 515-516, len(hsteps.keys()) == 0: _getSteps raises TestException
NoSteps(steps) == steps = <<>>

\* lines 202-235: getSteps, the check of the running chain
RunEnter ==
  /\ pc = "run"
  /\ LET c == cases[i]
         steps == StepsOf[c]
         local_chain == getFixtureChain(c)
         r0 == [results[i] EXCEPT !.stage = STAGE_INIT, !.rcode = PASS]
         r1 == [r0 EXCEPT !.step_count = Len(steps)]
     IN IF NoSteps(steps)
        THEN /\ Finally(Faulted(r0, Erro("preparing steps", 0)),
                        fixture_chain, next_chain, FALSE)
             /\ UNCHANGED next_chain
        ELSE IF ChainMismatch(fixture_chain, local_chain)
        THEN /\ next_chain' = <<>>
             /\ Finally(Faulted(r1, Erro("init", 0)), fixture_chain, <<>>, FALSE)
        ELSE /\ results' = [results EXCEPT ![i] = r1]
             /\ init_rslt' = PASS
             /\ idx' = InitStart(fixture_chain)
             /\ pc' = "init"
             /\ interrupt' = "none"
             /\ UNCHANGED <<next_chain, clean_rslt, td_i>>
  /\ log' = <<>>
  /\ clean_fail' = FALSE
  /\ UNCHANGED unknown
  /\ UNCHANGED <<suite_vars, step_vars, fixture_chain, step_results, cof,
                 orphans, init_ok>>

\* lines 236-244, one iteration: an entry without 'init' is passed over
\* (and not appended); otherwise the init is called
InitFixture ==
  /\ pc = "init"
  /\ idx <= Len(getFixtureChain(cases[i]))
  /\ LET local_chain == getFixtureChain(cases[i])
         fx == local_chain[idx]
     IN IF fx \notin HasInit
        THEN /\ idx' = idx + 1
             /\ UNCHANGED <<pc, results, fixture_chain, init_rslt, log,
                            init_ok, interrupt, clean_rslt, td_i>>
        ELSE \E o \in FixtureOutcomes :
               /\ log' = Append(log, Event("init", fx, 0, i, InitClass(o)))
               /\ init_ok' = [init_ok EXCEPT ![i] = @ /\ o = "PASS"]
               /\ IF o = "KeyboardInterrupt"
                  THEN /\ Finally(results[i], fixture_chain, next_chain, TRUE)
                       /\ UNCHANGED fixture_chain
                  ELSE IF o = "Exception"
                  THEN /\ Finally(Faulted(results[i], Erro("init", 0)),
                                  fixture_chain, next_chain, FALSE)
                       /\ UNCHANGED fixture_chain
                  ELSE /\ init_rslt' = CodeOf(o)
                       /\ IF CodeOf(o) = FAIL \/ CodeOf(o) = SKIPPED
                          THEN /\ idx' = Len(local_chain) + 1
                               /\ UNCHANGED fixture_chain
                          ELSE /\ idx' = idx + 1
                               /\ fixture_chain' =
                                    Append(fixture_chain, [name |-> fx, case |-> i])
                       /\ UNCHANGED <<pc, results, interrupt, clean_rslt, td_i>>
  /\ UNCHANGED <<suite_vars, step_vars, next_chain, step_results, cof,
                 orphans, clean_fail, unknown>>

\* an init phase that takes every init result for PASS
InitVerdictPass(rslt) == PASS

\* lines 247-249: an init result outside STATES counts as PASS
InitVerdict(rslt) == IF rslt \notin DOMAIN STATES THEN PASS ELSE rslt

\* lines 247-263: after the init loop
InitDone ==
  /\ pc = "init"
  /\ idx > Len(getFixtureChain(cases[i]))
  /\ LET rs == InitVerdict(init_rslt)
         r == results[i]
     IN IF rs = SKIPPED
        THEN Finally([r EXCEPT !.rcode = rs], fixture_chain, next_chain, FALSE)
        ELSE IF rs # PASS
        THEN Finally([r EXCEPT !.failed_on = Append(@, Erro("init", 0)),
                              !.rcode = rs],
                    fixture_chain, next_chain, FALSE)
        ELSE /\ results' = [results EXCEPT ![i] = [r EXCEPT !.stage = STAGE_STEP]]
             /\ idx' = 1
             /\ pc' = "steps"
             /\ UNCHANGED <<init_rslt, interrupt, clean_rslt, td_i>>
  /\ UNCHANGED <<suite_vars, step_vars, fixture_chain, next_chain,
                 step_results, cof, orphans, log, init_ok, clean_fail, unknown>>

\* a teardown loop that a failed clean ends
TeardownOverOnFail(fc, from, rslt) == Len(fc) <= from \/ rslt # PASS

\* line 314, range(len(fixture_chain) - 1, i - 1, -1): the loop is over
\* when the chain is down to i entries, whatever the cleans returned
TeardownOver(fc, from, rslt) == Len(fc) <= from

\* a teardown loop that takes the outermost entry first
PopFirst(fc) == 1

\* line 315, fixture_chain.pop(): the entry taken is the last one
PopIndex(fc) == Len(fc)

\* lines 314-325, one iteration: pop the innermost entry, call its clean
TeardownPop ==
  /\ pc = "teardown"
  /\ ~TeardownOver(fixture_chain, td_i, clean_rslt)
  /\ LET at == PopIndex(fixture_chain)
         fx == fixture_chain[at]
     IN /\ fixture_chain' = SubSeq(fixture_chain, 1, at - 1) \o
                            SubSeq(fixture_chain, at + 1, Len(fixture_chain))
        /\ IF fx.name \in HasClean
           THEN \E o \in CleanOutcomes :
                  /\ log' = Append(log, Event("clean", fx.name, 0, fx.case, "called"))
                  /\ clean_rslt' = IF Raises(o) THEN ABORT ELSE CodeOf(o)
                  /\ clean_fail' = (clean_fail \/ Raises(o) \/
                                      CodeOf(o) \in DOMAIN STATES \ {PASS})
           ELSE /\ log' = Append(log, Event("pop", fx.name, 0, fx.case, "none"))
                /\ UNCHANGED <<clean_rslt, clean_fail>>
  /\ UNCHANGED <<suite_vars, step_vars, pc, next_chain, results, init_ok,
                 step_results, cof, init_rslt, idx, td_i, interrupt, orphans,
                 unknown>>

\* lines 326-346: the verdict of the teardown, the result is finished and
\* returned (which discards an exception in flight)
TeardownDone ==
  /\ pc = "teardown"
  /\ TeardownOver(fixture_chain, td_i, clean_rslt)
  /\ LET cr == IF clean_rslt \notin DOMAIN STATES THEN PASS ELSE clean_rslt
         r == results[i]
         r1 == IF cr # PASS
               THEN [r EXCEPT !.failed_on = Append(@, Erro("cleanup", 0)),
                              !.rcode = cr]
               ELSE r
     IN results' = [results EXCEPT ![i] = [r1 EXCEPT !.stage = STAGE_FINISHED]]
  /\ interrupt' = IF interrupt = "raised" THEN "swallowed" ELSE interrupt
  /\ pc' = "ran"
  /\ clean_rslt' = PASS
  /\ td_i' = 0
  /\ UNCHANGED <<suite_vars, step_vars, init_rslt, idx, fixture_chain,
                 next_chain, step_results, cof, orphans, log, init_ok, clean_fail, unknown>>

\* lines 333-335: KeyboardInterrupt/SystemExit arrives in the teardown
\* phase outside a clean call and is re-raised; nothing above catches it
TeardownInterrupt ==
  /\ pc = "teardown"
  /\ interrupt' = "propagated"
  /\ pc' = "crashed"
  /\ clean_rslt' = PASS
  /\ td_i' = 0
  /\ log' = <<>>
  /\ clean_fail' = FALSE
  /\ UNCHANGED unknown
  /\ UNCHANGED <<suite_vars, step_vars, init_rslt, idx, fixture_chain,
                 next_chain, results, step_results, cof, orphans, init_ok>>

(***************************************************************************)
(* Testcase._runStep and the step loop of Testcase.run                     *)
(***************************************************************************)
\* lines 387-415: the rcode of a single step that was not interrupted;
\* except AssertionError also catches subclasses of AssertionError
SingleCode(o) ==
  CASE o \in {"AssertionError", "AssertionSub"} -> FAIL
    [] o = "Exception" -> ABORT
    [] o = "None" -> PASS
    [] OTHER -> CodeOf(o)

\* a join loop in which every sub-step gets the code ABORT
SubCodeAbort(o) == ABORT

\* lines 438-463: the rcode of a joined sub-step; the thread caught every
\* BaseException, and etype == AssertionError holds of that class only
SubCode(o) ==
  LET c == CASE o = "AssertionError" -> FAIL
             [] o \in {"AssertionSub", "Exception", "KeyboardInterrupt"} -> ABORT
             [] o = "None" -> PASS
             [] OTHER -> CodeOf(o)
  IN IF c \notin DOMAIN STATES THEN UNKNOWN ELSE c

ClearStep ==
  /\ threads' = <<>>
  /\ jn' = 0
  /\ st_rcode' = PASS
  /\ st_rlist' = <<>>
  /\ ret' = "none"

\* _runStep of a step with one sub-step (lines 382-418, 474-475). A value
\* outside STATES makes STATES[rcode] of line 474 raise KeyError, which
\* the handler of Testcase.run turns into ABORT.
StepSingle ==
  /\ pc = "steps"
  /\ StepsOf[cases[i]][idx] = 1
  /\ \E o \in StepOutcomes :
       IF o = "KeyboardInterrupt"
       THEN /\ Finally(results[i], fixture_chain, next_chain, TRUE)
            /\ UNCHANGED <<step_vars, unknown>>
       ELSE IF SingleCode(o) \notin DOMAIN STATES
       THEN /\ Finally(Faulted(results[i], Erro("step", idx)),
                       fixture_chain, next_chain, FALSE)
            /\ unknown' = unknown \cup {i}
            /\ UNCHANGED step_vars
       ELSE /\ st_rcode' = SingleCode(o)
            /\ UNCHANGED unknown
            /\ st_rlist' = <<SingleCode(o)>>
            /\ ret' = o
            /\ pc' = "step_ret"
            /\ UNCHANGED <<threads, jn, results, interrupt, run_vars>>
  /\ log' = Append(log, Event("step", "", idx, i, "started"))
  /\ UNCHANGED <<suite_vars, fixture_chain, next_chain, step_results, cof,
                 orphans, init_ok, clean_fail>>

\* _runStep of a step with several sub-steps, lines 420-431: one
\* ChorusThread per sub-step, all started
StartThreads ==
  /\ pc = "steps"
  /\ StepsOf[cases[i]][idx] > 1
  /\ threads' = [t \in 1..StepsOf[cases[i]][idx] |->
                   [st |-> "running", ret |-> "none", seq |-> 0]]
  /\ jn' = 1
  /\ st_rcode' = PASS
  /\ st_rlist' = <<>>
  /\ pc' = "join"
  /\ log' = Append(log, Event("step", "", idx, i, "started"))
  /\ UNCHANGED <<suite_vars, run_vars, ret, fixture_chain, next_chain,
                 results, step_results, cof, interrupt, orphans, init_ok, clean_fail, unknown>>

\* how many of the threads have finished
Finished(ths) == Cardinality({t \in DOMAIN ths : ths[t].st = "done"})

\* ChorusThread.run: the target returns or raises, _return keeps it; seq is
\* the place of the thread among the threads of the step in the order in
\* which they finish
SubStepRun(t) ==
  /\ t \in DOMAIN threads
  /\ threads[t].st = "running"
  /\ \E o \in StepOutcomes :
       threads' = [threads EXCEPT ![t] =
                    [st |-> "done", ret |-> o, seq |-> Finished(threads) + 1]]
  /\ UNCHANGED <<suite_vars, run_vars, pc, jn, st_rcode, st_rlist, ret,
                 fixture_chain, next_chain, results, step_results, cof,
                 interrupt, orphans, log, init_ok, clean_fail, unknown>>

\* the comparison the other way round
WorseFlipped(a, b) == a < b

\* lines 470-471, result.rcode > rcode: the codes compare as numbers
Worse(a, b) == a > b

\* a join that does not wait for the thread
JoinNoWait(th) == TRUE

\* ChorusThread.join, Thread.join(self): returns once the thread's run has
\* ended
JoinReturns(th) == th.st = "done"

\* lines 433-472, one iteration: join the next thread in start order and
\* fold its result into rcode
JoinThread ==
  /\ pc = "join"
  /\ JoinReturns(threads[jn])
  /\ LET code == SubCode(threads[jn].ret)
     IN /\ st_rlist' = Append(st_rlist, code)
        /\ st_rcode' = IF Worse(code, st_rcode) THEN code ELSE st_rcode
  /\ unknown' = IF threads[jn].ret = "BAD" THEN unknown \cup {i} ELSE unknown
  /\ jn' = jn + 1
  /\ pc' = IF jn = Len(threads) THEN "step_ret" ELSE "join"
  /\ UNCHANGED <<suite_vars, run_vars, threads, ret, fixture_chain,
                 next_chain, results, step_results, cof, interrupt, orphans,
                 log, init_ok, clean_fail>>

\* KeyboardInterrupt/SystemExit arrives in the control thread while it
\* joins: lines 283-285, then the finally clause; the threads that have not
\* finished keep running
JoinInterrupt ==
  /\ pc = "join"
  /\ orphans' = orphans +
       Cardinality({t \in DOMAIN threads : threads[t].st = "running"})
  /\ ClearStep
  /\ Finally(results[i], fixture_chain, next_chain, TRUE)
  /\ UNCHANGED <<suite_vars, fixture_chain, next_chain, step_results, cof,
                 log, init_ok, clean_fail, unknown>>

\* a thread left behind finishes
OrphanFinish ==
  /\ orphans > 0
  /\ orphans' = orphans - 1
  /\ UNCHANGED <<suite_vars, step_vars, run_vars, pc, fixture_chain,
                 next_chain, results, step_results, cof, interrupt, log, init_ok, clean_fail, unknown>>

\* a step loop without the break
StopNever(rc, c) == FALSE

\* line 281: the step loop is left on a step that did not pass unless
\* continue-on-fail is set
StopOnFail(rc, c) == rc # PASS /\ ~c

\* a step loop that passes over every other step
NextSidSkip(k) == k + 2

\* lines 265-266, for i in sorted(steps.keys()): the position in sids of
\* the step after the one at position k
NextSid(k) == k + 1

\* lines 270-282 and the end of the step loop
StepReturn ==
  /\ pc = "step_ret"
  /\ LET r == results[i]
         state == IF st_rcode \notin DOMAIN STATES THEN UNKNOWN ELSE st_rcode
         r1 == [r EXCEPT !.step_run = @ + 1]
         r2 == IF st_rcode # PASS
               THEN [r1 EXCEPT !.rcode = state,
                               !.failed_on = Append(@, Erro("step", idx))]
               ELSE r1
         stop == StopOnFail(st_rcode, cof) \/ idx = Len(StepsOf[cases[i]])
     IN IF stop
        THEN Finally(r2, fixture_chain, next_chain, FALSE)
        ELSE /\ results' = [results EXCEPT ![i] = r2]
             /\ idx' = NextSid(idx)
             /\ pc' = "steps"
             /\ UNCHANGED <<init_rslt, interrupt, clean_rslt, td_i>>
  /\ step_results' = Append(step_results, st_rlist)
  /\ log' = Append(log, Event("stepret", "", idx, i, STATES[st_rcode]))
  /\ ClearStep
  /\ UNCHANGED <<suite_vars, fixture_chain, next_chain, cof, orphans,
                 init_ok, clean_fail, unknown>>

(***************************************************************************)
(* Specifications                                                          *)
(***************************************************************************)
RunNext ==
  \/ RunEnter
  \/ InitFixture
  \/ InitDone
  \/ StepSingle
  \/ StartThreads
  \/ \E t \in DOMAIN threads : SubStepRun(t)
  \/ JoinThread
  \/ JoinInterrupt
  \/ OrphanFinish
  \/ StepReturn
  \/ TeardownPop
  \/ TeardownDone
  \/ TeardownInterrupt

Next ==
  \/ \E name \in AddNames : addcase(name)
  \/ run_sortcase
  \/ CaseTopoMissing
  \/ CaseTopoInitFail
  \/ CaseStart
  \/ CaseEnd
  \/ CaseEndCleanFail
  \/ SuiteFinish
  \/ RunNext

Spec == Init /\ [][Next]_vars

\* the running chains an earlier testcase (case 0) can have left applied:
\* entries that have an init, innermost last
PriorChains ==
  {[k \in 1..Len(ch) |-> [name |-> ch[k], case |-> 0]] :
     ch \in {<<>>, <<"X">>, <<"X", "Y">>, <<"X", "Y", "Z">>, <<"S3">>}}

\* t = cls(); t.run(fixture_chain=P, next_chain=N)
InitCase ==
  /\ pc = "run"
  /\ \E c \in AllClasses : cases = <<c>>
  /\ i = 1
  /\ fixture_chain \in PriorChains
  /\ next_chain \in AllChains
  /\ results = <<NewResult>>
  /\ init_ok = <<TRUE>>
  /\ InitCommon

SpecCase == InitCase /\ [][RunNext]_vars

\* the longest list of cases Testsuite._sortcase is given in SpecSort
MaxSortCases == 3

\* self.cases as a sequence of addcase calls can have left it: any list of
\* classes that have a topology binding; then Testsuite.run up to the loop
InitSort ==
  /\ pc = "idle"
  /\ cases \in UNION {[1..n -> AllClasses] : n \in 0..MaxSortCases}
  /\ i = 0
  /\ fixture_chain = <<>>
  /\ next_chain = <<>>
  /\ results = <<>>
  /\ init_ok = <<>>
  /\ InitCommon

SpecSort == InitSort /\ [][run_sortcase]_vars

\* the classes of the suite in SpecDeep: T, whose chain has an entry
\* without init between two that have one, V and U
DeepClasses == {"T", "V", "U"}

\* MaxCases calls of Testsuite.addcase with classes of DeepClasses were
\* made; Testsuite.run has not been called
InitDeep ==
  /\ pc = "idle"
  /\ cases \in [1..MaxCases -> DeepClasses]
  /\ i = 0
  /\ fixture_chain = <<>>
  /\ next_chain = <<>>
  /\ results = <<>>
  /\ init_ok = <<>>
  /\ InitCommon

SpecDeep == InitDeep /\ [][Next]_vars

(***************************************************************************)
(* Reading the history of a run                                            *)
(***************************************************************************)
Names(seq) == [k \in 1..Len(seq) |-> seq[k].name]

Reverse(seq) == [k \in 1..Len(seq) |-> seq[Len(seq) + 1 - k]]

\* the init calls of the history, in call order
InitEvents(h) == SelectSeq(h, LAMBDA e : e.ev = "init")

\* the entries the teardown loop popped, in pop order
PopEvents(h) == SelectSeq(h, LAMBDA e : e.ev \in {"clean", "pop"})

\* the init calls that applied their entry: the init returned, and
\* returned neither FAIL nor SKIPPED
AppliedEvents(h) ==
  SelectSeq(h, LAMBDA e : /\ e.ev = "init"
                          /\ e.out \notin {"FAIL", "SKIPPED", "Exception",
                                           "KeyboardInterrupt"})

\* the entries of the running chain that an earlier run applied, and those
\* the current run applied
PriorChain == SelectSeq(fixture_chain, LAMBDA e : e.case # i)
OwnChain == SelectSeq(fixture_chain, LAMBDA e : e.case = i)

\* the length of the longest common prefix of two sequences of names
CommonPrefixLen(a, b) ==
  LET len == IF Len(a) < Len(b) THEN Len(a) ELSE Len(b)
      agree == {k \in 0..len : \A j \in 1..k : a[j] = b[j]}
  IN CHOOSE k \in agree : \A m \in agree : m <= k

\* control is in Testcase.run past its entry, or has just returned from it
InRun == pc \in {"init", "steps", "join", "step_ret", "teardown", "ran"}
\* control is in the try block of Testcase.run
InTry == pc \in {"init", "steps", "join", "step_ret"}
\* the init phase of the current run is over
PastInit == pc \in {"steps", "join", "step_ret", "teardown", "ran"}

(***************************************************************************)
(* C1                                                                      *)
(***************************************************************************)
\* the scenario: A = Y with chain [X,Y] and B = Z with chain [X,Y,Z], both
\* of topology tA, are the suite; every init called so far returned PASS
C1_Scenario ==
  /\ cases = <<"Y", "Z">>
  /\ i \in 1..Len(init_ok)
  /\ \A k \in 1..i : init_ok[k]
  /\ InRun

\* C1: when A (chain [X,Y]) and B (chain [X,Y,Z]) run consecutively on one
\* topology and all inits pass, A's run calls the init of X and of Y once
\* each, B's run calls the init of Z only (so X and Y are initialized once
\* in total), no clean of X or Y is called during A's run, and in B's run a
\* clean of X or Y is called only in the teardown phase, after B's steps
\* were started and with no step of B after it.
C1_FixtureReuse ==
  C1_Scenario =>
    LET inits == Names(InitEvents(log))
        full == IF i = 1 THEN <<"X", "Y">> ELSE <<"Z">>
    IN /\ IsPrefix(inits, full)
       /\ PastInit => inits = full
       /\ \A k \in 1..Len(log) :
            (log[k].ev \in {"clean", "pop"} /\ log[k].name \in {"X", "Y"}) =>
              /\ i = 2
              /\ results[2].stage \in {STAGE_CLEAN, STAGE_FINISHED}
              /\ \E m \in 1..(k - 1) : log[m].ev = "step"
              /\ \A m \in (k + 1)..Len(log) :
                   log[m].ev \notin {"init", "step", "stepret"}

\* B's run has returned PASS: it called the init of Z only, and then the
\* cleans of Z, Y and X, the latter two applied by A's run
C1_Witness ==
  /\ C1_Scenario
  /\ i = 2
  /\ pc = "ran"
  /\ results[2].rcode = PASS
  /\ Names(InitEvents(log)) = <<"Z">>
  /\ Names(PopEvents(log)) = <<"Z", "Y", "X">>
  /\ \E k \in 1..Len(log) : log[k].ev = "clean" /\ log[k].owner = 1

(***************************************************************************)
(* C2                                                                      *)
(***************************************************************************)
\* C2: when Testcase.run returns with a result other than SKIPPED (no chain
\* mismatch raised), with F the applied running chain (the prior chain
\* followed by the entries this run applied) and L the length of
\* the longest common prefix of F and next_chain, the running chain left
\* behind is F[0..L) and the entries torn down are exactly F[L..), innermost
\* first.
C2_TeardownSuffix ==
  LET prior == Names(PriorChain) \o
               Reverse(Names(SelectSeq(PopEvents(log),
                                       LAMBDA e : e.owner # i)))
      F == prior \o Names(AppliedEvents(log))
      L == CommonPrefixLen(F, next_chain)
  IN ( /\ pc = "ran"
       /\ results[i].rcode # SKIPPED
       /\ IsPrefix(prior, getFixtureChain(cases[i])) )
     => /\ Names(fixture_chain) = SubSeq(F, 1, L)
        /\ Names(PopEvents(log)) = Reverse(SubSeq(F, L + 1, Len(F)))

(***************************************************************************)
(* C3                                                                      *)
(***************************************************************************)
\* C3: while control is in the try block of a run that found the prior
\* chain P to be a name-prefix of the full chain C, every init called by
\* this run is that of an entry of C at a position beyond len(P), and the
\* running chain is P followed by the entries this run set up (their init
\* was called and returned neither FAIL nor SKIPPED), in call order.
C3_SuffixOnlySetup ==
  InTry =>
    LET C == getFixtureChain(cases[i])
        P == PriorChain
        inits == Names(InitEvents(log))
    IN /\ IsPrefix(Names(P), C)
       /\ \A k \in 1..Len(inits) :
            \E m \in (Len(P) + 1)..Len(C) : C[m] = inits[k]
       /\ \A k \in 1..Len(inits) : \A m \in 1..Len(P) : inits[k] # P[m].name
       /\ SubSeq(fixture_chain, 1, Len(P)) = P
       /\ Names(OwnChain) = Names(AppliedEvents(log))
       /\ Len(fixture_chain) = Len(P) + Len(OwnChain)

\* the run of Z found P = [X,Y] applied by an earlier case and set up Z only
C3_Witness ==
  /\ pc = "steps"
  /\ cases[i] = "Z"
  /\ Names(PriorChain) = <<"X", "Y">>
  /\ Names(InitEvents(log)) = <<"Z">>
  /\ Names(fixture_chain) = <<"X", "Y", "Z">>

(***************************************************************************)
(* C4, C5                                                                  *)
(***************************************************************************)
\* an init of the current run returned SKIPPED
SkippedInit == \E k \in 1..Len(log) : log[k].ev = "init" /\ log[k].out = "SKIPPED"

\* C4: once an init fixture of a run has returned SKIPPED, the run starts no
\* step, step_run stays 0, and the result it returns has the code SKIPPED.
C4_SkipNoSteps ==
  (InRun /\ SkippedInit) =>
    /\ pc \in {"init", "ran"}
    /\ \A k \in 1..Len(log) : log[k].ev \notin {"step", "stepret"}
    /\ results[i].step_run = 0
    /\ pc = "ran" => results[i].rcode = SKIPPED

\* a run of Y has returned after the init of Y returned SKIPPED
C4_Witness ==
  /\ pc = "ran"
  /\ cases[i] = "Y"
  /\ SkippedInit
  /\ Names(InitEvents(log)) = <<"X", "Y">>
  /\ results[i].step_count = 1
  /\ results[i].step_run = 0
  /\ results[i].rcode = SKIPPED

\* C5: when an init fixture has returned SKIPPED, every entry of the
\* running chain that is not shared with next_chain has been torn down
\* when run returns, and the topology of the group is cleaned once the last
\* case of the group has been run.
C5_SkipStillTearsDown ==
  /\ (pc = "ran" /\ SkippedInit) =>
       \A k \in 1..Len(fixture_chain) :
         /\ k <= Len(next_chain)
         /\ next_chain[k] = fixture_chain[k].name
  /\ \A k \in 1..Len(results) :
       ( /\ k < i
         /\ results[k].stage = STAGE_FINISHED
         /\ results[k].rcode = SKIPPED
         /\ results[k].step_run = 0
         /\ LastOfGroup(cases, k) ) => topo_cleans[TopoOf[cases[k]]] = 1

(***************************************************************************)
(* C6, C7                                                                  *)
(***************************************************************************)
StepRets(h) == SelectSeq(h, LAMBDA e : e.ev = "stepret")

\* the worst of a set of status names under PASS < FAIL < ABORT
WorstOf(outs) ==
  IF "ABORT" \in outs THEN ABORT ELSE IF "FAIL" \in outs THEN FAIL ELSE PASS

\* C6: without continue-on-fail, after a step has returned a code other than
\* PASS no further step is started; and when the run of S3 (steps 1, 2, 3)
\* with init PASS has returned after step 2 returned FAIL and the teardown
\* passed, step 3 was not started, step_run is 2, the result code is FAIL
\* and failed_on holds one annotation, that of step 2.
C6_FailStops ==
  (InRun /\ ~cof) =>
    /\ \A k \in 1..Len(log) :
         (log[k].ev = "stepret" /\ log[k].out # "PASS") =>
           \A m \in (k + 1)..Len(log) : log[m].ev # "step"
    /\ ( /\ cases[i] = "S3"
         /\ pc = "ran"
         /\ init_ok[i]
         /\ ~clean_fail
         /\ \E k \in 1..Len(log) :
              log[k].ev = "stepret" /\ log[k].sid = 2 /\ log[k].out = "FAIL" )
       => /\ \A k \in 1..Len(log) : ~(log[k].ev = "step" /\ log[k].sid = 3)
          /\ results[i].step_run = 2
          /\ results[i].rcode = FAIL
          /\ results[i].failed_on = <<Erro("step", 2)>>

\* the run of S3 without continue-on-fail has returned FAIL after step 1
\* passed and step 2 failed
C6_Witness ==
  /\ ~cof
  /\ cases[i] = "S3"
  /\ pc = "ran"
  /\ init_ok[i]
  /\ ~clean_fail
  /\ [k \in 1..Len(StepRets(log)) |-> StepRets(log)[k].out] = <<"PASS", "FAIL">>
  /\ results[i].rcode = FAIL
  /\ results[i].stage = STAGE_FINISHED

\* C7: with continue-on-fail, when a run whose inits passed and whose step
\* phase was entered has returned, every step that was started having
\* returned PASS, FAIL or ABORT and the teardown having passed, every step was run (step_run = step_count) and the result code
\* is the worst of the steps' codes under PASS < FAIL < ABORT.
C7_ContinueOnFail ==
  LET rets == StepRets(log)
      outs == {rets[k].out : k \in 1..Len(rets)}
      started == SelectSeq(log, LAMBDA e : e.ev = "step")
  IN ( /\ cof
       /\ pc = "ran"
       /\ init_ok[i]
       /\ ~clean_fail
       /\ interrupt = "none"
       /\ Len(started) > 0
       /\ Len(started) = Len(rets)
       /\ outs \subseteq {"PASS", "FAIL", "ABORT"} )
     => /\ results[i].step_run = results[i].step_count
        /\ results[i].rcode = WorstOf(outs)

(***************************************************************************)
(* C8, C9                                                                  *)
(***************************************************************************)
\* C8: when _runStep returns from a step with several sub-steps whose codes
\* are all of PASS, FAIL, ABORT, the step's code is the greatest of them
\* under ABORT > FAIL > PASS, in whatever order the sub-steps finished:
\* {PASS, FAIL, PASS} gives FAIL and {PASS, ABORT} gives ABORT.
C8_ParallelMax ==
  ( /\ pc = "step_ret"
    /\ Len(st_rlist) > 1
    /\ \A k \in 1..Len(st_rlist) : st_rlist[k] \in {PASS, FAIL, ABORT} )
  => st_rcode = WorstOf({STATES[st_rlist[k]] : k \in 1..Len(st_rlist)})

\* the three sub-steps of step 1 of P3 gave PASS, FAIL and PASS, the first
\* of them finishing last
C8_Witness ==
  /\ pc = "step_ret"
  /\ st_rlist = <<PASS, FAIL, PASS>>
  /\ st_rcode = FAIL

\* the code the specification gives to what a step or sub-step did
Mapped(o, code) ==
  /\ o = "None" => code = PASS
  /\ o \in {"AssertionError", "AssertionSub"} => code = FAIL
  /\ o = "Exception" => code = ABORT

\* C9: a single step, and every sub-step of a parallel step, that returns
\* no value gets PASS, one that raises AssertionError or a subclass of it
\* gets FAIL, one that raises another exception gets ABORT; and when the
\* only step of a testcase is a single step that returns no value, the
\* step loop leaves the result code at PASS.
C9_StepOutcomeMapping ==
  /\ [](/\ (pc = "step_ret" /\ threads = <<>>) => Mapped(ret, st_rcode)
        /\ (pc \in {"join", "step_ret"} /\ threads # <<>>) =>
             \A k \in 1..Len(st_rlist) : Mapped(threads[k].ret, st_rlist[k]))
  /\ [][( /\ pc = "step_ret"
          /\ threads = <<>>
          /\ ret = "None"
          /\ results[i].step_count = 1
          /\ pc' = "teardown" ) => results'[i].rcode = PASS]_vars

(***************************************************************************)
(* C10                                                                     *)
(***************************************************************************)
\* C10: when control has left Testcase.run, by return or by an exception,
\* the stage of the result is FINISHED, and a result whose stage is
\* FINISHED keeps that stage.
C10_AlwaysFinished ==
  /\ [](pc \in {"ran", "crashed"} => results[i].stage = STAGE_FINISHED)
  /\ [][results[i].stage = STAGE_FINISHED =>
          results'[i].stage = STAGE_FINISHED]_vars

(***************************************************************************)
(* C11                                                                     *)
(***************************************************************************)
\* the names of the chain that was passed to the current run: the entries
\* of earlier cases still applied, then those already popped
PriorNames ==
  Names(PriorChain) \o
  Reverse(Names(SelectSeq(PopEvents(log), LAMBDA e : e.owner # i)))

\* the current run was given a chain that is longer than the full chain of
\* its testcase or differs from it by name, and its steps were found
MismatchRun ==
  /\ InRun
  /\ StepsOf[cases[i]] # <<>>
  /\ ~IsPrefix(PriorNames, getFixtureChain(cases[i]))

C12_InterruptPropagates ==
  interrupt # "none" =>
    /\ pc \in {"teardown", "crashed"}
    /\ suite_ret = "none"

\* Testcase.run has returned after KeyboardInterrupt/SystemExit arrived
\* while a step of it was executing
InterruptedStep ==
  /\ pc = "ran"
  /\ interrupt = "swallowed"
  /\ \E k \in 1..Len(log) : log[k].ev = "step"

\* C13: when a run has returned after an interrupt arrived during one of its
\* steps, that step is the last one started (it did not return and no step
\* was started after it), and every entry of the running chain that is not
\* shared with next_chain has been torn down.
C13_InterruptTearsDown ==
  InterruptedStep =>
    /\ Len(SelectSeq(log, LAMBDA e : e.ev = "step")) = Len(StepRets(log)) + 1
    /\ \A k \in 1..Len(log) :
         log[k].ev \in {"clean", "pop"} =>
           \A m \in (k + 1)..Len(log) : log[m].ev \notin {"step", "stepret"}
    /\ \A k \in 1..Len(fixture_chain) :
         /\ k <= Len(next_chain)
         /\ next_chain[k] = fixture_chain[k].name


(***************************************************************************)
(* C14                                                                     *)
(***************************************************************************)
\* control is between the loop head's topology block and the recording of
\* the current case: the case is about to run, runs, or has returned
CaseRunning == pc = "run" \/ InRun

\* the loop was left by the break after a topology init that raised
InitRaised == pc \in {"report", "done"} /\ i <= Len(cases)

\* the scenario: X (chain [X]) and Y (chain [X,Y]) of topology tA are the
\* suite, and every fixture init called so far returned PASS
C14_Scenario ==
  /\ cases = <<"X", "Y">>
  /\ pc \notin {"idle", "crashed"}
  /\ \A k \in 1..Len(init_ok) : init_ok[k]

Recorded(s) == {case_results[s][k] : k \in 1..Len(case_results[s])}

\* C15: when Testsuite.run has ended after the init of a group's topology
\* raised, every case of that group is recorded under TOPO_FAIL and under
\* nothing else, with a result that shows no run (no step run), and every
\* case of a later group is recorded under some status, its topology
\* having been looked up and, where it exists, initialized.
C15_TopoInitFault ==
  (pc = "done" /\ InitRaised) =>
    \A k \in 1..Len(cases) :
      IF TopoOf[cases[k]] = TopoOf[cases[i]]
      THEN /\ k \in Recorded("TOPO_FAIL")
           /\ \A s \in Statuses \ {"TOPO_FAIL"} : k \notin Recorded(s)
           /\ k <= Len(results) => results[k].step_run = 0
      ELSE k > i =>
             /\ \E s \in Statuses : k \in Recorded(s)
             /\ TopoOf[cases[k]] \in Topos => topo_inits[TopoOf[cases[k]]] = 1


(***************************************************************************)
(* C16                                                                     *)
(***************************************************************************)
\* C16: when the run of the last case of a group (or of the suite) has
\* returned, that is when its topology is about to be cleaned, the next
\* chain it was given is empty and the running fixture chain is empty; and
\* the running chain is empty when Testsuite.run has ended.
C16_GroupBoundaryTeardown ==
  /\ (pc = "ran" /\ LastOfGroup(cases, i)) =>
       /\ next_chain = <<>>
       /\ fixture_chain = <<>>
  /\ pc = "done" => fixture_chain = <<>>


(***************************************************************************)
(* C17                                                                     *)
(***************************************************************************)
\* C17: a step of Testsuite.run in which the topology clean raises after
\* the last case of a group files that case under TOPO_FAIL and under no
\* other status, whatever the result code of its run, and leaves the
\* captured results (result code, stage, step_run, failure annotations) and
\* the step results as the run returned them.
C17_TopoCleanFault ==
  [][CaseEndCleanFail =>
       /\ LastOfGroup(cases, i)
       /\ case_results'["TOPO_FAIL"] = Append(case_results["TOPO_FAIL"], i)
       /\ \A s \in Statuses \ {"TOPO_FAIL"} : case_results'[s] = case_results[s]
       /\ results' = results
       /\ step_results' = step_results]_vars

\* a case whose run ended FAIL with a step run and a failure annotated is
\* filed under TOPO_FAIL
C17_Witness ==
  /\ pc \in {"loop", "report"}
  /\ \E k \in Recorded("TOPO_FAIL") :
       /\ k < i
       /\ results[k].rcode = FAIL
       /\ results[k].step_run >= 1
       /\ results[k].failed_on # <<>>
       /\ results[k].stage = STAGE_FINISHED


(***************************************************************************)
(* C18                                                                     *)
(***************************************************************************)
\* how often case k is filed under status s
TimesRecorded(s, k) ==
  Cardinality({m \in 1..Len(case_results[s]) : case_results[s][m] = k})

\* C18: when Testsuite.run has ended, every scheduled case is filed in the
\* histogram exactly once: under one status, and once under that status.
C18_HistogramComplete ==
  pc = "done" =>
    \A k \in 1..Len(cases) :
      \E s \in Statuses :
        /\ TimesRecorded(s, k) = 1
        /\ \A r \in Statuses \ {s} : TimesRecorded(r, k) = 0


(***************************************************************************)
(* C20                                                                     *)
(***************************************************************************)
\* C20: a case a step or joined sub-step of which returned a value outside
\* STATES is never filed under PASS or SKIPPED; when its run has returned
\* the teardown has been through the running chain, which holds no entry
\* beyond the common prefix with the next chain; and when Testsuite.run has
\* ended after such a case it has returned false.
C20_UnknownFails ==
  /\ \A k \in unknown : k \notin Recorded("PASS") \cup Recorded("SKIPPED")
  /\ (pc = "ran" /\ i \in unknown) =>
       \A k \in 1..Len(fixture_chain) :
         /\ k <= Len(next_chain)
         /\ next_chain[k] = fixture_chain[k].name
  /\ (pc = "done" /\ unknown # {}) => suite_ret = "false"


(***************************************************************************)
(* C19                                                                     *)
(***************************************************************************)
\* the statuses under which some case is filed: the keys of the histogram
HistogramKeys == {s \in Statuses : case_results[s] # <<>>}

\* the cases filed with the result code UNKNOWN that a step value outside
\* STATES gave them (no cleanup annotation: no clean replaced the code)
RecordedUnknown ==
  {k \in unknown :
     /\ results[k].rcode = UNKNOWN
     /\ \A m \in 1..Len(results[k].failed_on) :
          results[k].failed_on[m].step = "step"
     /\ k \in Recorded(STATES[UNKNOWN])}

\* C19: when Testsuite.run has returned, it has returned true exactly when
\* every key of the histogram is PASS or SKIPPED, and false when some case
\* is filed under FAIL, ABORT, TOPO_FAIL or CONN_FAIL, or was filed with
\* the result code UNKNOWN.
C19_SuiteSuccess ==
  pc = "done" =>
    /\ suite_ret \in {"true", "false"}
    /\ suite_ret = "true" <=> HistogramKeys \subseteq {"PASS", "SKIPPED"}
    /\ HistogramKeys \cap {"FAIL", "ABORT", "TOPO_FAIL", "CONN_FAIL"} # {} =>
         suite_ret = "false"
    /\ RecordedUnknown # {} => suite_ret = "false"


(***************************************************************************)
(* C21                                                                     *)
(***************************************************************************)
\* C21: a call of Testsuite.addcase with a name that is no known class, or
\* the name of a class without topology binding, returns false and leaves
\* the scheduled cases as they were; a call with any other name returns
\* true and appends one entry, that of the named class (whose fixture chain
\* and topology the entry carries), behind the cases already scheduled.
C21_AddcaseRejects ==
  [][(pc = "idle" /\ pc' = "idle") =>
       /\ added'.name \in AddNames
       /\ IF added'.name \notin CaseClass \/ added'.name \in LibClasses
          THEN /\ added'.ret = "false"
               /\ cases' = cases
          ELSE /\ added'.ret = "true"
               /\ Len(cases') = Len(cases) + 1
               /\ SubSeq(cases', 1, Len(cases)) = cases
               /\ cases'[Len(cases')] = added'.name
               /\ TopoOf[cases'[Len(cases')]] # NoTopo]_vars

\* a case is scheduled, and then a class without topology binding was
\* refused
C21_Witness ==
  /\ pc = "idle"
  /\ cases = <<"Y">>
  /\ added = [name |-> "L", ret |-> "false"]


(***************************************************************************)
(* C22                                                                     *)
(***************************************************************************)
\* _runStep has returned the result of a step with several sub-steps
ParallelReturned == pc = "step_ret" /\ threads # <<>>

\* C22: when _runStep returns the result of a step with several sub-steps,
\* one thread per sub-step of the step was started, every one of them has
\* finished and was joined, and the result list has one result per
\* sub-step; while it joins, the threads joined so far have finished.
C22_AllJoined ==
  /\ ParallelReturned =>
       /\ Len(threads) = StepsOf[cases[i]][idx]
       /\ \A t \in DOMAIN threads : threads[t].st = "done"
       /\ jn = Len(threads) + 1
       /\ Len(st_rlist) = Len(threads)
  /\ pc = "join" =>
       /\ Len(threads) = StepsOf[cases[i]][idx]
       /\ Len(st_rlist) = jn - 1
       /\ \A t \in 1..(jn - 1) : threads[t].st = "done"

\* the three sub-steps of P3's step have finished, the first with a raised
\* exception, and _runStep returns ABORT with three results
C22_Witness ==
  /\ ParallelReturned
  /\ cases[i] = "P3"
  /\ Len(threads) = 3
  /\ \A t \in 1..3 : threads[t].st = "done"
  /\ threads[1].ret = "Exception"
  /\ st_rlist = <<ABORT, PASS, PASS>>
  /\ st_rcode = ABORT


(***************************************************************************)
(* C23                                                                     *)
(***************************************************************************)
\* the code of a sub-step that returned: its own return value
OwnCode(o) ==
  CASE o = "None" -> PASS
    [] o = "BAD" -> UNKNOWN
    [] OTHER -> CodeOf(o)

\* C23: when _runStep returns the result of a step with several sub-steps,
\* every sub-step has run to its end whatever its siblings did, and the
\* result list holds one result per sub-step, in order: FAIL or ABORT for
\* a sub-step that raised, and for a sub-step that returned the code of
\* its own return value; a finished sub-step keeps its outcome.
C23_SubStepContainment ==
  /\ [](ParallelReturned =>
          /\ Len(st_rlist) = StepsOf[cases[i]][idx]
          /\ \A k \in 1..Len(st_rlist) :
               /\ threads[k].st = "done"
               /\ IF Raises(threads[k].ret)
                  THEN st_rlist[k] \in {FAIL, ABORT}
                  ELSE st_rlist[k] = OwnCode(threads[k].ret))
  /\ [][\A k \in DOMAIN threads :
          (threads[k].st = "done" /\ threads' # <<>>) =>
            threads'[k] = threads[k]]_vars

\* P3's first sub-step failed an assertion, the second returned nothing,
\* the third returned SKIPPED: each has its own code in the result list
C23_Witness ==
  /\ ParallelReturned
  /\ Len(threads) = 3
  /\ threads[1].ret = "AssertionError"
  /\ threads[2].ret = "None"
  /\ threads[3].ret = "SKIPPED"
  /\ st_rlist = <<FAIL, PASS, SKIPPED>>


(***************************************************************************)
(* C24                                                                     *)
(***************************************************************************)
\* the names of the running chain as the teardown phase found it: what is
\* left of it, then what was popped
TeardownChain == Names(fixture_chain) \o Reverse(Names(PopEvents(log)))

\* C24: the teardown loop of a run starts no deeper than the end of the
\* common prefix of the running chain and next_chain, so it covers the
\* teardown suffix; and when the teardown phase is left by the return of
\* run, whether or not a clean raised or returned a failure, the running
\* chain holds no entry beyond that common prefix, every entry of the
\* suffix was popped, innermost first, and the clean of every popped entry
\* that has one was called.
C24_BestEffortTeardown ==
  /\ [](pc = "teardown" =>
          /\ td_i <= CommonPrefixLen(TeardownChain, next_chain)
          /\ Len(fixture_chain) >= td_i)
  /\ [][(pc = "teardown" /\ pc' = "ran") =>
          LET F == TeardownChain
              L == CommonPrefixLen(F, next_chain)
              pops == PopEvents(log)
          IN /\ fixture_chain' = fixture_chain
             /\ Len(fixture_chain) <= L
             /\ IsPrefix(Reverse(SubSeq(F, L + 1, Len(F))), Names(pops))
             /\ \A k \in 1..Len(pops) :
                  pops[k].name \in HasClean <=> pops[k].ev = "clean"]_vars

\* the run of Z has returned PASS from a teardown in which a clean failed:
\* the cleans of Z, Y and X were all called, and it was not the last
\* one that failed
C24_Witness ==
  /\ pc = "ran"
  /\ cases[i] = "Z"
  /\ clean_fail
  /\ results[i].rcode = PASS
  /\ next_chain = <<>>
  /\ fixture_chain = <<>>
  /\ Names(PopEvents(log)) = <<"Z", "Y", "X">>
  /\ \A k \in 1..Len(PopEvents(log)) : PopEvents(log)[k].ev = "clean"


(***************************************************************************)
(* C25, C26                                                                *)
(***************************************************************************)
\* C25: the teardown phase leaves the result code as the init and step
\* phases decided it: no pop changes it, and the result run returns from
\* the teardown phase has the code the phase was entered with, whatever the
\* cleans raised or returned.
C25_TeardownKeepsVerdict ==
  [][pc = "teardown" =>
       /\ pc' = "teardown" => results'[i].rcode = results[i].rcode
       /\ pc' = "ran" => results'[i].rcode = results[i].rcode]_vars

\* C26: when run has returned from a teardown phase in which some clean
\* raised or returned a code of STATES other than PASS, the failure
\* annotations of the result hold a cleanup annotation.
C26_TeardownFaultRecorded ==
  (pc = "ran" /\ clean_fail) =>
    \E m \in 1..Len(results[i].failed_on) :
      results[i].failed_on[m] = Erro("cleanup", 0)


(***************************************************************************)
(* C27                                                                     *)
(***************************************************************************)
\* the place of a class name in the order of strings
NameRank ==
  [c \in AllClasses |->
     CASE c = "P3" -> 1 [] c = "S3" -> 2 [] c = "U" -> 3 [] c = "V" -> 4
       [] c = "W" -> 5 [] c = "X" -> 6 [] c = "Y" -> 7 [] c = "Z" -> 8]

\* chain a is not greater than chain b, entries compared by name
LexLeq(a, b) ==
  LET n == CommonPrefixLen(a, b)
  IN IF n = Len(a) THEN TRUE
     ELSE IF n = Len(b) THEN FALSE
     ELSE NameRank[a[n + 1]] < NameRank[b[n + 1]]

\* the number of cases of the schedule cs that have the topology of cs[k]
GroupSize(cs, k) ==
  Cardinality({m \in 1..Len(cs) : TopoOf[cs[m]] = TopoOf[cs[k]]})

\* the schedule cs is in the order the specification describes
Scheduled(cs) ==
  /\ \A a, b \in 1..Len(cs) :
       (a < b /\ TopoOf[cs[a]] = TopoOf[cs[b]]) =>
         \A m \in a..b : TopoOf[cs[m]] = TopoOf[cs[a]]
  /\ \A a, b \in 1..Len(cs) : a < b => GroupSize(cs, a) <= GroupSize(cs, b)
  /\ \A a, b \in 1..Len(cs) :
       (a < b /\ TopoOf[cs[a]] = TopoOf[cs[b]]) =>
         LexLeq(getFixtureChain(cs[a]), getFixtureChain(cs[b]))

\* C27: for every list of scheduled cases, Testsuite._sortcase ends with a
\* schedule in which the cases of one topology are contiguous, the groups
\* are in ascending order of their case count, and the cases of a group
\* are in non-decreasing lexicographic order of their fixture chains
\* compared by entry name.
C27_SchedulingOrder ==
  pc # "idle" =>
    /\ pc # "crashed"
    /\ Scheduled(cases)


(***************************************************************************)
(* C28                                                                     *)
(***************************************************************************)
\* the starts and returns of steps in the history of the current run
StepEvents == SelectSeq(log, LAMBDA e : e.ev \in {"step", "stepret"})

\* C28: in the history of a run the starts and returns of steps alternate,
\* beginning with the start of step 1, and the k-th step started is step
\* k: every step but the first starts right after the step before it has
\* returned its result; and the step loop moves on to the next step only
\* from a step whose sub-step threads have all finished.
C28_StepOrder ==
  /\ [](InRun =>
          \A k \in 1..Len(StepEvents) :
            IF k % 2 = 1
            THEN /\ StepEvents[k].ev = "step"
                 /\ StepEvents[k].sid = (k + 1) \div 2
            ELSE /\ StepEvents[k].ev = "stepret"
                 /\ StepEvents[k].sid = k \div 2)
  /\ [][(pc = "step_ret" /\ pc' = "steps") =>
          /\ \A t \in DOMAIN threads : threads[t].st = "done"
          /\ Len(st_rlist) = StepsOf[cases[i]][idx]
          /\ idx' = idx + 1]_vars

\* the run of S3 has returned after its steps 1, 2 and 3 were started and
\* returned, in that order
C28_Witness ==
  /\ pc = "ran"
  /\ cases[i] = "S3"
  /\ Len(StepEvents) = 6
  /\ [k \in 1..6 |-> StepEvents[k].sid] = <<1, 1, 2, 2, 3, 3>>
  /\ results[i].step_run = 3


(***************************************************************************)
(* C29, C30                                                                *)
(***************************************************************************)
\* the positions in the history of the inits of the current run that
\* returned a code of STATES other than PASS and SKIPPED
FailedInits ==
  {k \in 1..Len(log) : log[k].ev = "init" /\ log[k].out \in {"FAIL", "NONPASS"}}

\* C29: once an init of a run has returned FAIL, ABORT, TOPO_FAIL or
\* CONN_FAIL, the run calls no further init.
C29_SetupStopsAtFailure ==
  InRun =>
    \A k \in FailedInits : \A m \in (k + 1)..Len(log) : log[m].ev # "init"

\* C30: a run in which an init returned a code of STATES other than PASS
\* starts no step, and the result it returns (no clean having failed, no
\* interrupt having arrived) has a code other than PASS: FAIL when the
\* init returned FAIL, SKIPPED when it returned SKIPPED.
C30_StepsNeedPassingInit ==
  InRun =>
    \A k \in 1..Len(log) :
      (log[k].ev = "init" /\ log[k].out \in {"FAIL", "NONPASS", "SKIPPED"}) =>
        /\ \A m \in 1..Len(log) : log[m].ev \notin {"step", "stepret"}
        /\ results[i].step_run = 0
        /\ (pc = "ran" /\ ~clean_fail /\ interrupt = "none") =>
             /\ results[i].rcode # PASS
             /\ log[k].out = "FAIL" => results[i].rcode = FAIL
             /\ log[k].out = "SKIPPED" => results[i].rcode = SKIPPED


(***************************************************************************)
(* C31                                                                     *)
(***************************************************************************)
\* how deep the class named n is below Testcase: the place of its entry in
\* every fixture chain that has it
Depth(n) == Len(getFixtureChain(n))

\* C31: in the history of a run the inits are called in strictly ascending
\* chain position and the entries are popped (their cleans called) in
\* strictly descending chain position, the entries an earlier testcase set
\* up included, which are popped after those of the run itself; and no
\* init is called once the first entry was popped.
C31_FixtureOrdering ==
  InRun =>
    LET inits == InitEvents(log)
        pops == PopEvents(log)
    IN /\ \A k, m \in 1..Len(inits) :
            k < m => Depth(inits[k].name) < Depth(inits[m].name)
       /\ \A k, m \in 1..Len(pops) :
            k < m => /\ Depth(pops[k].name) > Depth(pops[m].name)
                     /\ pops[m].owner = i => pops[k].owner = i
       /\ \A k, m \in 1..Len(log) :
            (k < m /\ log[k].ev \in {"clean", "pop"}) => log[m].ev # "init"

\* the run of Z was handed [X]: it called the inits of Y and Z, and on its
\* return has called the cleans of Z, Y and, set up by the earlier case, X
C31_Witness ==
  /\ pc = "ran"
  /\ cases[i] = "Z"
  /\ Names(InitEvents(log)) = <<"Y", "Z">>
  /\ Names(PopEvents(log)) = <<"Z", "Y", "X">>
  /\ [k \in 1..3 |-> PopEvents(log)[k].owner] = <<i, i, 0>>


(***************************************************************************)
(* C32                                                                     *)
(***************************************************************************)
\* the codes of the sub-steps of the parallel step that has returned, those
\* that are SKIPPED left out
NotSkipped == {st_rlist[k] : k \in 1..Len(st_rlist)} \ {SKIPPED}

\* the largest of a non-empty set of codes
MaxCode(S) == CHOOSE c \in S : \A d \in S : d <= c

\* C32: when a parallel step has returned and one of its sub-steps has a
\* code other than SKIPPED, the code of the step is the worst of the codes
\* other than SKIPPED: a sub-step that returned SKIPPED beside one that
\* failed gives FAIL, beside ones that passed gives PASS.
C32_SkippedExcluded ==
  (ParallelReturned /\ NotSkipped # {}) => st_rcode = MaxCode(NotSkipped)


(***************************************************************************)
(* C33                                                                     *)
(***************************************************************************)
\* C33: a run that returns, not interrupted and every clean it called
\* having passed, a result with the code SKIPPED had an init that returned
\* SKIPPED and ran no step; a run whose steps were started never returns
\* SKIPPED, whatever the steps return.
C33_SkippedMeansNoStep ==
  ( /\ pc = "ran"
    /\ interrupt = "none"
    /\ ~clean_fail
    /\ results[i].rcode = SKIPPED ) =>
    /\ SkippedInit
    /\ results[i].step_run = 0
    /\ \A k \in 1..Len(log) : log[k].ev # "step"


desclist ==
  [k \in 1..Len(st_rlist) |-> [name |-> k, status |-> STATES[st_rlist[k]]]]

\* C35: the message of a parallel step that has returned has one item for
\* every sub-step, and the items are in the order in which the sub-steps
\* finished: the sub-step of an earlier item finished before the sub-step
\* of a later one.
C35_MessageOrder ==
  ParallelReturned =>
    /\ {desclist[k].name : k \in 1..Len(desclist)} = DOMAIN threads
    /\ Len(desclist) = Len(threads)
    /\ \A k, m \in 1..Len(desclist) :
         k < m => threads[desclist[k].name].seq < threads[desclist[m].name].seq


(***************************************************************************)
(* C36                                                                     *)
(***************************************************************************)
\* C36: in a run of the suite the chain handed to a run of a testcase is a
\* prefix, by name, of the full chain of the testcase: no run finds the
\* running chain longer than or different from its own chain, whatever the
\* inits, steps and cleans of the earlier testcases returned.
C36_NoMismatchInSuite ==
  (InRun /\ StepsOf[cases[i]] # <<>>) =>
    IsPrefix(PriorNames, getFixtureChain(cases[i]))


(***************************************************************************)
(* C37                                                                     *)
(***************************************************************************)
\* C37: the step_results list of the result of every testcase created so
\* far holds as many entries as that testcase ran steps (step_run), so the
\* run of one testcase adds nothing to the step_results of the result of
\* another.
C37_StepResultsPerCase ==
  \A n \in DOMAIN results : Len(step_results) = results[n].step_run


(***************************************************************************)
(* C38                                                                     *)
(***************************************************************************)
\* how many cleans of the entry named n the current run has called
CleansOf(n) ==
  Cardinality({k \in 1..Len(log) : log[k].ev = "clean" /\ log[k].name = n})

\* C38: when the init loop of a run has gone through the chain and the
\* steps are running, the running chain has an entry at every position of
\* the testcase's full chain, those without an init included; and when the
\* run has started steps and returned, not interrupted, with a code other
\* than SKIPPED and an empty next chain, the clean of every entry of the
\* suffix it applied that has a clean, with or without init, was called
\* exactly once.
C38_CleanWithoutInit ==
  LET local_chain == getFixtureChain(cases[i])
  IN /\ pc = "steps" => Names(fixture_chain) = local_chain
     /\ ( /\ pc = "ran"
          /\ \E k \in 1..Len(log) : log[k].ev = "step"
          /\ interrupt = "none"
          /\ results[i].rcode # SKIPPED
          /\ next_chain = <<>> ) =>
          \A k \in 1..Len(local_chain) :
            (k > Len(PriorNames) /\ local_chain[k] \in HasClean) =>
              CleansOf(local_chain[k]) = 1


(***************************************************************************)
(* C39                                                                     *)
(***************************************************************************)
\* C39: while the teardown phase of a run goes on, and when the run has
\* ended (returned, or left by the exception), no thread of a sub-step of
\* the run is still running, also when KeyboardInterrupt/SystemExit
\* arrived while the control thread was joining the threads.
C39_NoSubStepAtTeardown ==
  pc \in {"teardown", "ran", "crashed"} => orphans = 0


(***************************************************************************)
(* C40                                                                     *)
(***************************************************************************)
\* topology t was initialized, its init did not raise, and it was not
\* cleaned since
Live(t) ==
  /\ topo_inits[t] > topo_cleans[t]
  /\ ~(InitRaised /\ TopoOf[cases[i]] = t)

\* C40: at most one topology is initialized and not yet cleaned; while a
\* case runs that topology is the case's own; a step that calls a topology
\* clean calls the clean of the one topology that is initialized and not
\* cleaned, which is that of the case that just ran, and a topology whose
\* init raised is never cleaned; and the step of the control thread that
\* finds the topology of a case not registered calls no topology init or
\* clean, starts no run and files the case, with a result that shows no
\* run, under SKIPPED.
C40_TopoResourceSafety ==
  /\ [](/\ Cardinality({t \in Topos : Live(t)}) <= 1
        /\ CaseRunning =>
             /\ TopoOf[cases[i]] \in Topos
             /\ cur_topo = TopoOf[cases[i]]
             /\ Live(cur_topo)
        /\ InitRaised => topo_cleans[TopoOf[cases[i]]] = 0)
  /\ [][\A t \in Topos :
          topo_cleans'[t] # topo_cleans[t] =>
            /\ topo_cleans'[t] = topo_cleans[t] + 1
            /\ pc = "ran"
            /\ t = TopoOf[cases[i]]
            /\ Live(t)
            /\ \A u \in Topos \ {t} : topo_cleans'[u] = topo_cleans[u]]_vars
  /\ [][( /\ pc = "loop" /\ NeedTopo /\ TopoOf[cases[i]] \notin Topos
          /\ orphans' = orphans ) =>
          /\ topo_inits' = topo_inits
          /\ topo_cleans' = topo_cleans
          /\ pc' \in {"loop", "report"}
          /\ i' = i + 1
          /\ results'[i].rcode = SKIPPED
          /\ results'[i].stage = STAGE_NOT_RUN
          /\ results'[i].step_run = 0
          /\ case_results'["SKIPPED"] = Append(case_results["SKIPPED"], i)]_vars

\* the suite is X (topology tA), V (tB) and the run of V is about to start:
\* tA was initialized and cleaned, tB is initialized and not cleaned
C40_Witness ==
  /\ cases = <<"X", "V">>
  /\ pc = "run"
  /\ i = 2
  /\ cur_topo = "tB"
  /\ topo_inits = [t \in Topos |-> 1]
  /\ topo_cleans = [t \in Topos |-> IF t = "tA" THEN 1 ELSE 0]
  /\ Live("tB") /\ ~Live("tA")

====
